---- MODULE Spec2Model ----
(***************************************************************************)
(* django-request: the request-logging pipeline.                           *)
(*   middleware.py  RequestMiddleware.process_response (admission filter)  *)
(*   managers.py    RequestManager.create_from_http_request (the router:   *)
(*                  cache / immediate save / buffer + bulk_create),         *)
(*                  RequestManager.persist_cached (flush of the cache)      *)
(*   models.py      Request.from_http_request, Request.save (redaction)    *)
(* Request threads run process_response concurrently and share the         *)
(* process-wide list settings.REQUEST_BUFFER, the cache and the table.     *)
(* Every access to shared state is one step; code that only touches the    *)
(* thread's own objects belongs to the step before or after it.            *)
(***************************************************************************)
EXTENDS Integers, Sequences, FiniteSets, TLC

\* ------------------------------------------------------------------ bounds
MaxRequests == 3           \* admitted exchanges in one behaviour of a single-threaded worker
MaxBufferedRequests == 4   \* admitted exchanges in one behaviour of the threaded Buffered worker
MaxCachedRequests == 2     \* admitted exchanges in one behaviour of the threaded Cached worker
MaxFlushes == 2            \* persist_cached calls (cache switched on) in one behaviour
MaxTime == 1               \* the clock of the single-threaded worker reads 0..MaxTime
MaxFilterRequests == 2     \* admitted exchanges in one behaviour of the filter's worker
MaxQueryRequests == 2      \* admitted exchanges in one behaviour of the worker with a query task

Threads == {"t1", "t2"}
Flushers == {"f1"}
\* The task of the query layer, which calls persist_cached too.
Reporter == "q1"
Callers == Flushers \cup {Reporter}

\* --------------------------------------------------------------- constants
None == "None"
Ip42 == <<203, 0, 113, 42>>
IpIgnored == <<10, 0, 0, 9>>
REQUEST_IP_DUMMY == <<1, 1, 1, 1>>
REQUEST_CACHE_PREFIX == "request"
REQUEST_VALID_METHOD_NAMES == {"get", "post"}
REQUEST_IGNORE_PATHS == {"/admin/"}
REQUEST_IGNORE_IP == {IpIgnored}
REQUEST_IGNORE_USERNAME == {"bot"}
BufferSizes == {0, 1, 2}
\* persist_cached's argument: no pattern (the default "<prefix>*"), or "request1*".
Patterns == {<<>>, <<REQUEST_CACHE_PREFIX, 1>>}

\* auth_user: the primary key of each user.
UserId == [u \in {"alice", "carol", "bot"} |->
              IF u = "alice" THEN 1 ELSE IF u = "carol" THEN 2 ELSE 3]
\* django_session: the expire_date of each session; s1 stays open, s3 is open only
\* while the clock reads 0.
SessionExpiry == [k \in {"s1", "s3"} |-> IF k = "s1" THEN MaxTime + 1 ELSE 0]
\* The keyword arguments of active_users: none, or a timedelta of 0 or 1.
Windows == {<<>>, <<0>>, <<1>>}
\* The user_ids of last_requests_with_open_sessions_from_users.
UserIdLists == {<<1>>, <<2>>, <<1, 2>>}

\* The settings a deployment fixes before the first request.
Settings ==
    [REQUEST_USE_CACHE : BOOLEAN,
     REQUEST_BUFFER_SIZE : BufferSizes,
     REQUEST_LOG_IP : BOOLEAN,
     REQUEST_ANONYMOUS_IP : BOOLEAN,
     REQUEST_LOG_USER : BOOLEAN,
     REQUEST_ONLY_ERRORS : BOOLEAN,
     REQUEST_IGNORE_AJAX : BOOLEAN]

\* The HTTP exchanges the framework hands to process_response.
Exchange(m, p, s, a, i, u, k) ==
    [method |-> m, path |-> p, status |-> s, ajax |-> a, ip |-> i,
     username |-> u, session |-> k]

Exchanges ==
    { Exchange("GET", "/", 200, FALSE, Ip42, "alice", "s1"),
      Exchange("GET", "/", 404, TRUE, Ip42, None, None),
      Exchange("TRACE", "/", 404, FALSE, Ip42, "alice", "s1"),
      Exchange("GET", "/admin/", 404, FALSE, Ip42, "alice", "s1"),
      Exchange("GET", "/", 404, FALSE, IpIgnored, "alice", "s1"),
      Exchange("GET", "/", 404, FALSE, Ip42, "bot", "s2") }

VARIABLES
    settings,        \* request.settings
    now,             \* datetime.utcnow()
    REQUEST_BUFFER,  \* settings.REQUEST_BUFFER, the process-wide list
    cache,           \* django.core.cache.cache: key -> Request
    store,           \* table request_request, in insertion (id) order
    pc,              \* each request thread's position in process_response
    r,               \* each request thread's Request object
    ret,             \* how each thread's last process_response ended
    nreq,            \* Request objects created so far (the last one's identity)
    fpc,             \* each flusher's position in persist_cached
    fl,              \* each flusher's locals: cache_pattern, requests_keys, requests, created
    fret,            \* how each flusher's last persist_cached ended
    nflush,          \* persist_cached calls so far
    bulkLog,         \* history: every bulk_create call, its argument and outcome
    quiet,           \* history: the patterns flushed since the last cache.set
    report           \* the query task: its position, its arguments and its last result

vars == <<settings, now, REQUEST_BUFFER, cache, store, pc, r, ret, nreq,
          fpc, fl, fret, nflush, bulkLog, quiet, report>>

\* ------------------------------------------------------------ pure helpers
Lower(m) ==
    CASE m = "GET" -> "get"
      [] m = "POST" -> "post"
      [] m = "TRACE" -> "trace"
      [] OTHER -> m

\* The filter without the test of lines 25-26.
FilterLineNoIp(e, cfg) ==
    IF Lower(e.method) \notin REQUEST_VALID_METHOD_NAMES THEN 14
    ELSE IF e.status < 400 /\ cfg.REQUEST_ONLY_ERRORS THEN 17
    ELSE IF e.path \in REQUEST_IGNORE_PATHS THEN 20
    ELSE IF e.ajax /\ cfg.REQUEST_IGNORE_AJAX THEN 23
    ELSE IF e.username /= None /\ e.username \in REQUEST_IGNORE_USERNAME THEN 30
    ELSE 0

\* The filter with the tests of lines 13 and 16 in the other order.
FilterLineStatusFirst(e, cfg) ==
    IF e.status < 400 /\ cfg.REQUEST_ONLY_ERRORS THEN 17
    ELSE IF Lower(e.method) \notin REQUEST_VALID_METHOD_NAMES THEN 14
    ELSE IF e.path \in REQUEST_IGNORE_PATHS THEN 20
    ELSE IF e.ajax /\ cfg.REQUEST_IGNORE_AJAX THEN 23
    ELSE IF e.ip \in REQUEST_IGNORE_IP THEN 26
    ELSE IF e.username /= None /\ e.username \in REQUEST_IGNORE_USERNAME THEN 30
    ELSE 0

\* middleware.py 13-30: the line of the first "return response" that is taken,
\* 0 when process_response goes on to line 32.
FilterLine(e, cfg) ==
    IF Lower(e.method) \notin REQUEST_VALID_METHOD_NAMES THEN 14
    ELSE IF e.status < 400 /\ cfg.REQUEST_ONLY_ERRORS THEN 17
    ELSE IF e.path \in REQUEST_IGNORE_PATHS THEN 20
    ELSE IF e.ajax /\ cfg.REQUEST_IGNORE_AJAX THEN 23
    ELSE IF e.ip \in REQUEST_IGNORE_IP THEN 26
    ELSE IF e.username /= None /\ e.username \in REQUEST_IGNORE_USERNAME THEN 30
    ELSE 0

Admitted(e, cfg) == FilterLine(e, cfg) = 0

get_client_ip(e) == e.ip

\* models.py 55-80: the Request built from the exchange; rid is the object's identity.
from_http_request(e, t, rid) ==
    [rid |-> rid, time |-> t, method |-> e.method, path |-> e.path,
     is_ajax |-> e.ajax, ip |-> get_client_ip(e), user |-> e.username,
     session_key |-> e.session, response |-> e.status]

\* A save that stamps the row with the time of the insert, later than any
\* reading of the clock by from_http_request.
RedactStamped(rec, cfg) ==
    LET ip1 == IF ~cfg.REQUEST_LOG_IP THEN REQUEST_IP_DUMMY
               ELSE IF cfg.REQUEST_ANONYMOUS_IP
                    THEN SubSeq(rec.ip, 1, Len(rec.ip) - 1) \o <<1>>
                    ELSE rec.ip
        u1 == IF ~cfg.REQUEST_LOG_USER THEN None ELSE rec.user
    IN [rec EXCEPT !.ip = ip1, !.user = u1, !.time = MaxTime + 1]

\* models.py 150-157: what Request.save does to the object before the insert.
Redact(rec, cfg) ==
    LET ip1 == IF ~cfg.REQUEST_LOG_IP THEN REQUEST_IP_DUMMY
               ELSE IF cfg.REQUEST_ANONYMOUS_IP
                    THEN SubSeq(rec.ip, 1, Len(rec.ip) - 1) \o <<1>>
                    ELSE rec.ip
        u1 == IF ~cfg.REQUEST_LOG_USER THEN None ELSE rec.user
    IN [rec EXCEPT !.ip = ip1, !.user = u1]

\* Manager.bulk_create(objs): one INSERT of the objects as they are; Model.save
\* is not called for them.
bulk_create(table, objs) == table \o objs

\* request_cache_key(r): prefix + an identifier unique to the record.
request_cache_key(rec) == <<REQUEST_CACHE_PREFIX, rec.rid>>

\* A glob "<p>*" matches the keys that start with p.
Matches(key, pattern) ==
    /\ Len(pattern) <= Len(key)
    /\ SubSeq(key, 1, Len(pattern)) = pattern

\* The write under the bare prefix.
cache_set_prefix(c, key, value) == (<<key[1]>> :> value) @@ c

\* cache.set(key, value, timeout=0): the entry is written, an older one under the
\* same key replaced; it does not expire.
cache_set(c, key, value) == (key :> value) @@ c

\* cache.delete_pattern(pattern).
delete_pattern(c, pattern) ==
    [k \in {x \in DOMAIN c : ~Matches(x, pattern)} |-> c[k]]

NoRequest == [rid |-> 0]
NoReport == [pc |-> "idle", op |-> "none", args |-> <<>>, at |-> 0, users |-> {}, ids |-> {}]
NoLocals ==
    [cache_pattern |-> <<>>, requests_keys |-> {}, requests |-> {}, created |-> <<>>,
     again |-> FALSE]

\* ------------------------------------------------------------------- Init
Init ==
    /\ settings \in Settings
    /\ now = 0
    /\ REQUEST_BUFFER = <<>>
    /\ cache = <<>>
    /\ store = <<>>
    /\ pc = [t \in Threads |-> "idle"]
    /\ r = [t \in Threads |-> NoRequest]
    /\ ret = [t \in Threads |-> "none"]
    /\ nreq = 0
    /\ fpc = [f \in Callers |-> "idle"]
    /\ fl = [f \in Callers |-> NoLocals]
    /\ fret = [f \in Callers |-> "none"]
    /\ nflush = 0
    /\ bulkLog = <<>>
    /\ quiet = {}
    /\ report = NoReport

\* ---------------------------------------------------- the request threads
\* process_response is left: its Request object is no longer referenced by the thread.
Return(t, how) ==
    /\ pc' = [pc EXCEPT ![t] = "idle"]
    /\ ret' = [ret EXCEPT ![t] = how]
    /\ r' = [r EXCEPT ![t] = NoRequest]

\* middleware.py 12-32 and managers.py 133-134: the filter, then the new Request.
\* utcnow() is read at line 57 of models.py: the clock has not gone back since the
\* last reading.
ProcessResponse(t, e, time) ==
    /\ pc[t] = "idle"
    /\ IF Admitted(e, settings)
       THEN /\ nreq' = nreq + 1
            /\ time >= now
            /\ now' = time
            /\ r' = [r EXCEPT ![t] = from_http_request(e, time, nreq + 1)]
            /\ pc' = [pc EXCEPT ![t] = "created"]
            /\ ret' = [ret EXCEPT ![t] = "none"]
       ELSE /\ Return(t, "filtered")
            /\ UNCHANGED <<nreq, now>>
    /\ UNCHANGED <<report, settings, REQUEST_BUFFER, cache, store, fpc, fl, fret, nflush,
                   bulkLog, quiet>>

\* managers.py 132-136 and 151: create_from_http_request(request, response,
\* commit=False) builds the Request (reading the clock at models.py 57) and returns
\* it; the middleware never calls it so, a direct caller may.
CreateUncommitted(t, e, time) ==
    /\ pc[t] = "idle"
    /\ time >= now
    /\ now' = time
    /\ Return(t, "uncommitted")
    /\ UNCHANGED <<report, settings, REQUEST_BUFFER, cache, store, nreq, fpc, fl, fret, nflush,
                   bulkLog, quiet>>

\* managers.py 138-140: cache.set(request_cache_key(r), r, timeout=0).
CacheSet(t) ==
    /\ pc[t] = "created"
    /\ settings.REQUEST_USE_CACHE = TRUE
    /\ cache' = cache_set(cache, request_cache_key(r[t]), r[t])
    /\ quiet' = {}
    /\ Return(t, "response")
    /\ UNCHANGED <<report, settings, now, REQUEST_BUFFER, store, nreq, fpc, fl, fret, nflush, bulkLog>>

\* The save of models.py 39-42 in place of the one of 149-159: the time is set
\* if it is missing and nothing is inserted.
SaveFirstDefinition(t) ==
    /\ pc[t] = "created"
    /\ settings.REQUEST_USE_CACHE /= TRUE
    /\ settings.REQUEST_BUFFER_SIZE = 0
    /\ store' = store
    /\ Return(t, "response")
    /\ UNCHANGED <<report, settings, now, REQUEST_BUFFER, cache, nreq, fpc, fl, fret, nflush,
                   bulkLog, quiet>>

\* managers.py 142-143 and models.py 149-159: r.save(), which may raise.
Save(t) ==
    /\ pc[t] = "created"
    /\ settings.REQUEST_USE_CACHE /= TRUE
    /\ settings.REQUEST_BUFFER_SIZE = 0
    /\ \E ok \in BOOLEAN :
         IF ok
         THEN /\ store' = Append(store, Redact(r[t], settings))
              /\ Return(t, "response")
         ELSE /\ store' = store
              /\ Return(t, "raised")
    /\ UNCHANGED <<report, settings, now, REQUEST_BUFFER, cache, nreq, fpc, fl, fret, nflush,
                   bulkLog, quiet>>

\* The append chosen by the buffer size alone, whatever the cache flag.
BufferAppendAnyCache(t) ==
    /\ pc[t] = "created"
    /\ settings.REQUEST_BUFFER_SIZE /= 0
    /\ REQUEST_BUFFER' = Append(REQUEST_BUFFER, r[t])
    /\ pc' = [pc EXCEPT ![t] = "check"]
    /\ UNCHANGED <<report, settings, now, cache, store, r, ret, nreq, fpc, fl, fret, nflush,
                   bulkLog, quiet>>

\* managers.py 145: settings.REQUEST_BUFFER.append(r).
BufferAppend(t) ==
    /\ pc[t] = "created"
    /\ settings.REQUEST_USE_CACHE /= TRUE
    /\ settings.REQUEST_BUFFER_SIZE /= 0
    /\ REQUEST_BUFFER' = Append(REQUEST_BUFFER, r[t])
    /\ pc' = [pc EXCEPT ![t] = "check"]
    /\ UNCHANGED <<report, settings, now, cache, store, r, ret, nreq, fpc, fl, fret, nflush,
                   bulkLog, quiet>>

\* The test with >= for >.
OverThresholdGe(buffer, size) == Len(buffer) >= size

\* managers.py 146: len(settings.REQUEST_BUFFER) > settings.REQUEST_BUFFER_SIZE.
OverThreshold(buffer, size) == Len(buffer) > size

ThresholdCheck(t) ==
    /\ pc[t] = "check"
    /\ IF OverThreshold(REQUEST_BUFFER, settings.REQUEST_BUFFER_SIZE)
       THEN /\ pc' = [pc EXCEPT ![t] = "bulk"]
            /\ UNCHANGED <<ret, r>>
       ELSE Return(t, "response")
    /\ UNCHANGED <<report, settings, now, REQUEST_BUFFER, cache, store, nreq, fpc, fl, fret,
                   nflush, bulkLog, quiet>>

\* One bulk_create call: who made it (a submit's own record, or the flusher), the
\* identities passed, whether it succeeded, the rows it added, and the number of
\* Request objects that existed when its caller returned (-1 until then).
LogEntry(src, by, objs, ok, added) ==
    [src |-> src, by |-> by, args |-> [i \in 1..Len(objs) |-> objs[i].rid],
     ok |-> ok, inserted |-> added, retAt |-> -1]

\* The log with the caller's entry closed.
Closed(log, src, by, at) ==
    [i \in 1..Len(log) |->
        IF log[i].src = src /\ log[i].by = by /\ log[i].retAt = -1
        THEN [log[i] EXCEPT !.retAt = at]
        ELSE log[i]]

\* The bulk insert without the try/except: a failure leaves process_response.
BufferBulkCreateRaise(t) ==
    /\ pc[t] = "bulk"
    /\ \E ok \in BOOLEAN :
         /\ store' = IF ok THEN bulk_create(store, REQUEST_BUFFER) ELSE store
         /\ bulkLog' = Append(bulkLog, LogEntry("buffer", r[t].rid, REQUEST_BUFFER, ok,
                                                Len(store') - Len(store)))
         /\ IF ok
            THEN pc' = [pc EXCEPT ![t] = "clear"] /\ UNCHANGED <<r, ret>>
            ELSE Return(t, "raised")
    /\ UNCHANGED <<report, settings, now, REQUEST_BUFFER, cache, nreq, fpc, fl, fret,
                   nflush, quiet>>

\* managers.py 147-150: try: self.bulk_create(settings.REQUEST_BUFFER) except: pass.
BufferBulkCreate(t) ==
    /\ pc[t] = "bulk"
    /\ \E ok \in BOOLEAN :
         /\ store' = IF ok THEN bulk_create(store, REQUEST_BUFFER) ELSE store
         /\ bulkLog' = Append(bulkLog, LogEntry("buffer", r[t].rid, REQUEST_BUFFER, ok,
                                                Len(store') - Len(store)))
    /\ pc' = [pc EXCEPT ![t] = "clear"]
    /\ UNCHANGED <<report, settings, now, REQUEST_BUFFER, cache, r, ret, nreq, fpc, fl, fret,
                   nflush, quiet>>

\* The list emptied only in the try's else branch, a failed batch kept for the
\* next flush.
BufferClearIfOk(t) ==
    /\ pc[t] = "clear"
    /\ REQUEST_BUFFER' =
         IF \E i \in 1..Len(bulkLog) :
              bulkLog[i].src = "buffer" /\ bulkLog[i].by = r[t].rid /\ ~bulkLog[i].ok
         THEN REQUEST_BUFFER
         ELSE <<>>
    /\ bulkLog' = Closed(bulkLog, "buffer", r[t].rid, nreq)
    /\ Return(t, "response")
    /\ UNCHANGED <<report, settings, now, cache, store, nreq, fpc, fl, fret, nflush, quiet>>

\* managers.py 151: settings.REQUEST_BUFFER = [].
BufferClear(t) ==
    /\ pc[t] = "clear"
    /\ REQUEST_BUFFER' = <<>>
    /\ bulkLog' = Closed(bulkLog, "buffer", r[t].rid, nreq)
    /\ Return(t, "response")
    /\ UNCHANGED <<report, settings, now, cache, store, nreq, fpc, fl, fret, nflush, quiet>>

\* --------------------------------------------------------- persist_cached
FReturn(f, how) ==
    /\ fpc' = [fpc EXCEPT ![f] = "idle"]
    /\ fret' = [fret EXCEPT ![f] = how]

\* managers.py 158-166: created = []; the default pattern; cache.keys(cache_pattern).
\* With the cache switched off the call returns [] at once.
PersistCached(f, p) ==
    /\ fpc[f] = "idle"
    /\ IF settings.REQUEST_USE_CACHE
       THEN LET pattern == IF p = <<>> THEN <<REQUEST_CACHE_PREFIX>> ELSE p
            IN /\ nflush < MaxFlushes
               /\ nflush' = nflush + 1
               /\ fl' = [fl EXCEPT ![f] =
                          [cache_pattern |-> pattern,
                           requests_keys |-> {k \in DOMAIN cache : Matches(k, pattern)},
                           requests |-> {}, created |-> <<>>,
                           again |-> pattern \in quiet]]
               /\ fpc' = [fpc EXCEPT ![f] = "get_many"]
               /\ fret' = [fret EXCEPT ![f] = "none"]
       ELSE /\ fl' = [fl EXCEPT ![f] = NoLocals]
            /\ FReturn(f, "returned")
            /\ nflush' = nflush
    /\ UNCHANGED <<report, settings, now, REQUEST_BUFFER, cache, store, pc, r, ret, nreq,
                   bulkLog, quiet>>

\* managers.py 167-168: cache.get_many(requests_keys).values().
GetMany(f) ==
    /\ fpc[f] = "get_many"
    /\ fl' = [fl EXCEPT ![f].requests =
                 {cache[k] : k \in fl[f].requests_keys \cap DOMAIN cache}]
    /\ fpc' = [fpc EXCEPT ![f] = "bulk_create"]
    /\ UNCHANGED <<report, settings, now, REQUEST_BUFFER, cache, store, pc, r, ret, nreq, fret,
                   nflush, bulkLog, quiet>>

\* The lists a dict's values() may come back as: every order of the set.
Orders(S) ==
    {q \in [1..Cardinality(S) -> S] : \A x \in S : \E i \in 1..Cardinality(S) : q[i] = x}

\* managers.py 171: created = self.bulk_create(requests); bulk_create returns an
\* empty list untouched, and an exception leaves persist_cached at this line.
FlushBulkCreate(f) ==
    /\ fpc[f] = "bulk_create"
    /\ \E objs \in Orders(fl[f].requests) :
       \E ok \in (IF fl[f].requests = {} THEN {TRUE} ELSE BOOLEAN) :
         IF ok
         THEN /\ store' = bulk_create(store, objs)
              /\ bulkLog' = Append(bulkLog, LogEntry("cache", f, objs, ok, Len(objs)))
              /\ fl' = [fl EXCEPT ![f].created = objs]
              /\ fpc' = [fpc EXCEPT ![f] = "delete_pattern"]
              /\ UNCHANGED <<fret, quiet>>
         ELSE /\ store' = store
              /\ bulkLog' = Closed(Append(bulkLog, LogEntry("cache", f, objs, ok, 0)),
                                   "cache", f, nreq)
              /\ fl' = fl
              /\ quiet' = quiet \cup {fl[f].cache_pattern}
              /\ FReturn(f, "raised")
    /\ UNCHANGED <<report, settings, now, REQUEST_BUFFER, cache, pc, r, ret, nreq, nflush>>

\* managers.py 174-176: cache.delete_pattern(cache_pattern); return created.
DeletePattern(f) ==
    /\ fpc[f] = "delete_pattern"
    /\ cache' = delete_pattern(cache, fl[f].cache_pattern)
    /\ bulkLog' = Closed(bulkLog, "cache", f, nreq)
    /\ quiet' = quiet \cup {fl[f].cache_pattern}
    /\ FReturn(f, "returned")
    /\ UNCHANGED <<report, settings, now, REQUEST_BUFFER, store, pc, r, ret, nreq, fl, nflush>>

\* --------------------------------------------------------- the query layer
\* The filter without user__isnull=False.
active_users_with_null(table, clock, options) ==
    LET qs == IF options /= <<>>
              THEN SelectSeq(table, LAMBDA row : row.time >= clock - options[1])
              ELSE table
    IN {qs[i].user : i \in 1..Len(qs)}

\* managers.py 124-130: qs = self.filter(user__isnull=False); with options,
\* qs = qs.filter(time__gte=utcnow() - timedelta(**options)); the set of the users.
active_users(table, clock, options) ==
    LET qs0 == SelectSeq(table, LAMBDA row : row.user /= None)
        qs == IF options /= <<>>
              THEN SelectSeq(qs0, LAMBDA row : row.time >= clock - options[1])
              ELSE qs0
    IN {qs[i].user : i \in 1..Len(qs)}

\* managers.py 195-205: SELECT max(r.id) FROM request_request r, django_session s
\* WHERE r.user_id IN user_ids AND s.expire_date >= now AND r.session_key =
\* s.session_key GROUP BY s.session_key. An id is the row's position in the table.
last_requests(table, user_ids, clock) ==
    LET joined(k) == {i \in 1..Len(table) :
                         /\ table[i].user /= None
                         /\ \E j \in 1..Len(user_ids) : UserId[table[i].user] = user_ids[j]
                         /\ table[i].session_key = k}
        open == {k \in DOMAIN SessionExpiry : SessionExpiry[k] >= clock /\ joined(k) /= {}}
    IN {CHOOSE i \in joined(k) : \A j \in joined(k) : j <= i : k \in open}

\* managers.py 110-130: active_users(**options), one SELECT; the clock is read at
\* line 127.
ActiveUsers(q, options, time) ==
    /\ fpc[q] = "idle"
    /\ report.pc = "idle"
    /\ time >= now
    /\ now' = time
    /\ report' = [pc |-> "idle", op |-> "active_users", args |-> options, at |-> time,
                  users |-> active_users(store, time, options), ids |-> {}]
    /\ UNCHANGED <<settings, REQUEST_BUFFER, cache, store, pc, r, ret, nreq, fpc, fl,
                   fret, nflush, bulkLog, quiet>>

\* managers.py 184-190: user_ids = map(int, user_ids), a single id doubled for the
\* IN clause; now = datetime.utcnow().
LastRequestsCall(q, user_ids, time) ==
    /\ fpc[q] = "idle"
    /\ report.pc = "idle"
    /\ time >= now
    /\ now' = time
    /\ report' = [pc |-> "persist", op |-> "last_requests",
                  args |-> IF Len(user_ids) = 1 THEN user_ids \o user_ids ELSE user_ids,
                  at |-> time, users |-> {}, ids |-> {}]
    /\ fret' = [fret EXCEPT ![q] = "none"]
    /\ UNCHANGED <<settings, REQUEST_BUFFER, cache, store, pc, r, ret, nreq, fpc, fl,
                   nflush, bulkLog, quiet>>

\* managers.py 193: self.persist_cached().
LastRequestsPersist(q) ==
    /\ report.pc = "persist"
    /\ fret[q] = "none"
    /\ PersistCached(q, <<>>)

\* managers.py 195-207: the raw query, once persist_cached has returned.
LastRequestsSelect(q) ==
    /\ report.pc = "persist"
    /\ fpc[q] = "idle"
    /\ fret[q] = "returned"
    /\ report' = [report EXCEPT !.pc = "idle",
                                !.ids = last_requests(store, report.args, report.at)]
    /\ UNCHANGED <<settings, now, REQUEST_BUFFER, cache, store, pc, r, ret, nreq, fpc,
                   fl, fret, nflush, bulkLog, quiet>>

\* managers.py 193: an exception of persist_cached leaves the query too.
LastRequestsRaise(q) ==
    /\ report.pc = "persist"
    /\ fpc[q] = "idle"
    /\ fret[q] = "raised"
    /\ report' = [report EXCEPT !.pc = "idle", !.op = "last_requests raised"]
    /\ UNCHANGED <<settings, now, REQUEST_BUFFER, cache, store, pc, r, ret, nreq, fpc,
                   fl, fret, nflush, bulkLog, quiet>>

\* ------------------------------------------------------- specifications
\* No call is in progress.
Quiescent ==
    /\ \A t \in Threads : pc[t] = "idle"
    /\ \A f \in Callers : fpc[f] = "idle"
    /\ report.pc = "idle"

\* The bound on the Request objects of one behaviour.
Room(e, limit) == Admitted(e, settings) => nreq < limit

\* The deployments of the single-threaded worker: every strategy, with every
\* filter setting or every redaction setting.
Deployments ==
    {s \in Settings :
        \/ ~s.REQUEST_ONLY_ERRORS /\ ~s.REQUEST_IGNORE_AJAX
        \/ s.REQUEST_LOG_IP /\ ~s.REQUEST_ANONYMOUS_IP /\ s.REQUEST_LOG_USER}

SerialInit == Init /\ settings \in Deployments

\* The middleware in a single-threaded worker: one exchange at a time, each
\* process_response run to its end.
Next ==
    \/ \E e \in Exchanges, time \in now..MaxTime :
          Quiescent /\ Room(e, MaxRequests) /\ ProcessResponse("t1", e, time)
    \/ CacheSet("t1")
    \/ Save("t1")
    \/ BufferAppend("t1")
    \/ ThresholdCheck("t1")
    \/ BufferBulkCreate("t1")
    \/ BufferClear("t1")

Spec == SerialInit /\ [][Next]_vars

\* The Buffered strategy in a threaded worker: the request threads interleave on
\* the shared list.
BufferedInit ==
    /\ Init
    /\ ~settings.REQUEST_USE_CACHE
    /\ settings.REQUEST_BUFFER_SIZE /= 0
    /\ settings.REQUEST_ONLY_ERRORS /\ ~settings.REQUEST_IGNORE_AJAX
    /\ settings.REQUEST_LOG_IP /\ ~settings.REQUEST_ANONYMOUS_IP /\ settings.REQUEST_LOG_USER

BufferedNext ==
    \/ \E t \in Threads, e \in Exchanges :
          Room(e, MaxBufferedRequests) /\ ProcessResponse(t, e, now)
    \/ \E t \in Threads : BufferAppend(t)
    \/ \E t \in Threads : ThresholdCheck(t)
    \/ \E t \in Threads : BufferBulkCreate(t)
    \/ \E t \in Threads : BufferClear(t)

BufferedSpec == BufferedInit /\ [][BufferedNext]_vars

\* The Cached strategy in a threaded worker, with persist_cached run from a
\* separate task.
CachedInit ==
    /\ Init
    /\ settings.REQUEST_USE_CACHE
    /\ settings.REQUEST_BUFFER_SIZE = 1
    /\ settings.REQUEST_ONLY_ERRORS /\ ~settings.REQUEST_IGNORE_AJAX
    /\ settings.REQUEST_LOG_IP /\ ~settings.REQUEST_ANONYMOUS_IP /\ settings.REQUEST_LOG_USER

CachedNext ==
    \/ \E t \in Threads, e \in Exchanges :
          Room(e, MaxCachedRequests) /\ ProcessResponse(t, e, now)
    \/ \E t \in Threads : CacheSet(t)
    \/ \E f \in Flushers, p \in Patterns : PersistCached(f, p)
    \/ \E f \in Flushers : GetMany(f)
    \/ \E f \in Flushers : FlushBulkCreate(f)
    \/ \E f \in Flushers : DeletePattern(f)

CachedSpec == CachedInit /\ [][CachedNext]_vars

\* The Immediate strategy in a single-threaded worker whose database accepts
\* every insert: r.save() returns.
ImmediateInit ==
    /\ SerialInit
    /\ ~settings.REQUEST_USE_CACHE
    /\ settings.REQUEST_BUFFER_SIZE = 0

SaveSucceeds(t) == Save(t) /\ ret'[t] = "response"

ImmediateNext ==
    \/ \E e \in Exchanges, time \in now..MaxTime :
          Quiescent /\ Room(e, MaxRequests) /\ ProcessResponse("t1", e, time)
    \/ SaveSucceeds("t1")

ImmediateSpec == ImmediateInit /\ [][ImmediateNext]_vars

\* Every combination of the fields of an exchange that the filter reads, with the
\* status codes on both sides of 400.
AllExchanges ==
    {Exchange(m, p, s, a, i, u, IF u = None THEN None ELSE "s1") :
        m \in {"GET", "POST", "TRACE"}, p \in {"/", "/admin/"}, s \in {399, 400},
        a \in BOOLEAN, i \in {Ip42, IpIgnored}, u \in {None, "alice", "bot"}}

\* The filter in a single-threaded worker of the Immediate strategy, under every
\* setting of REQUEST_ONLY_ERRORS and REQUEST_IGNORE_AJAX.
FilterInit ==
    /\ Init
    /\ ~settings.REQUEST_USE_CACHE
    /\ settings.REQUEST_BUFFER_SIZE = 0
    /\ settings.REQUEST_LOG_IP /\ ~settings.REQUEST_ANONYMOUS_IP /\ settings.REQUEST_LOG_USER

FilterNext ==
    \/ \E e \in AllExchanges :
          Quiescent /\ Room(e, MaxFilterRequests) /\ ProcessResponse("t1", e, now)
    \/ Save("t1")

FilterSpec == FilterInit /\ [][FilterNext]_vars

\* The router in a single-threaded worker: every combination of the cache flag
\* and the buffer size, the exchanges of the middleware (commit=True) and direct
\* calls with commit=False.
RouterInit ==
    /\ Init
    /\ ~settings.REQUEST_ONLY_ERRORS /\ ~settings.REQUEST_IGNORE_AJAX
    /\ settings.REQUEST_LOG_IP /\ ~settings.REQUEST_ANONYMOUS_IP /\ settings.REQUEST_LOG_USER

RouterNext ==
    \/ \E e \in Exchanges, time \in now..MaxTime :
          Quiescent /\ Room(e, MaxRequests) /\ ProcessResponse("t1", e, time)
    \/ \E e \in Exchanges, time \in now..MaxTime :
          Quiescent /\ CreateUncommitted("t1", e, time)
    \/ CacheSet("t1")
    \/ Save("t1")
    \/ BufferAppend("t1")
    \/ ThresholdCheck("t1")
    \/ BufferBulkCreate("t1")
    \/ BufferClear("t1")

RouterSpec == RouterInit /\ [][RouterNext]_vars

\* The exchanges of a site with two users and anonymous visitors.
QueryExchanges ==
    { Exchange("GET", "/", 200, FALSE, Ip42, "alice", "s1"),
      Exchange("GET", "/", 200, FALSE, Ip42, "carol", "s3"),
      Exchange("GET", "/", 404, TRUE, Ip42, None, None) }

\* A single-threaded worker of the Immediate or the Cached strategy, the task that
\* runs persist_cached and the task of the query layer, one call at a time. A
\* query leaves nothing behind but its result, so the worker's and the flusher's
\* calls are explored ahead of the queries.
QueryInit ==
    /\ Init
    /\ settings.REQUEST_BUFFER_SIZE = 0
    /\ ~settings.REQUEST_ONLY_ERRORS /\ ~settings.REQUEST_IGNORE_AJAX
    /\ settings.REQUEST_LOG_IP /\ ~settings.REQUEST_ANONYMOUS_IP /\ settings.REQUEST_LOG_USER

QueryNext ==
    \/ \E e \in QueryExchanges, time \in now..MaxTime :
          /\ Quiescent /\ report = NoReport
          /\ Room(e, MaxQueryRequests)
          /\ ProcessResponse("t1", e, time)
    \/ CacheSet("t1")
    \/ Save("t1")
    \/ Quiescent /\ report = NoReport /\ cache /= <<>> /\ PersistCached("f1", <<>>)
    \/ \E f \in Callers : GetMany(f)
    \/ \E f \in Callers : FlushBulkCreate(f)
    \/ \E f \in Callers : DeletePattern(f)
    \/ \E options \in Windows, time \in now..MaxTime :
          Quiescent /\ ActiveUsers(Reporter, options, time)
    \/ \E user_ids \in UserIdLists, time \in now..MaxTime :
          /\ Quiescent
          /\ settings.REQUEST_USE_CACHE => nflush < MaxFlushes
          /\ LastRequestsCall(Reporter, user_ids, time)
    \/ LastRequestsPersist(Reporter)
    \/ LastRequestsSelect(Reporter)
    \/ LastRequestsRaise(Reporter)

QuerySpec == QueryInit /\ [][QueryNext]_vars

\* A single-threaded worker of the Immediate strategy, with and without
\* REQUEST_LOG_USER, and active_users called once the rows are in the table.
ActiveInit ==
    /\ Init
    /\ ~settings.REQUEST_USE_CACHE
    /\ settings.REQUEST_BUFFER_SIZE = 0
    /\ ~settings.REQUEST_ONLY_ERRORS /\ ~settings.REQUEST_IGNORE_AJAX
    /\ settings.REQUEST_LOG_IP /\ ~settings.REQUEST_ANONYMOUS_IP

ActiveNext ==
    \/ \E e \in QueryExchanges, time \in now..MaxTime :
          /\ Quiescent /\ report = NoReport
          /\ Room(e, MaxQueryRequests)
          /\ ProcessResponse("t1", e, time)
    \/ Save("t1")
    \/ \E options \in Windows, time \in now..MaxTime :
          Quiescent /\ ActiveUsers(Reporter, options, time)

ActiveSpec == ActiveInit /\ [][ActiveNext]_vars

\* The Cached strategy with one request thread, persist_cached run from two
\* tasks at once, and the query of the open sessions, which runs it too.
RaceInit == CachedInit

RaceNext ==
    \/ \E e \in Exchanges :
          Room(e, MaxCachedRequests) /\ ProcessResponse("t1", e, now)
    \/ CacheSet("t1")
    \/ \E f \in Callers : report.pc = "idle" /\ PersistCached(f, <<>>)
    \/ \E f \in Callers : GetMany(f)
    \/ \E f \in Callers : FlushBulkCreate(f)
    \/ \E f \in Callers : DeletePattern(f)
    \/ nflush < MaxFlushes /\ LastRequestsCall(Reporter, <<1>>, now)
    \/ LastRequestsPersist(Reporter)
    \/ LastRequestsSelect(Reporter)
    \/ LastRequestsRaise(Reporter)

RaceSpec == RaceInit /\ [][RaceNext]_vars

\* A single-threaded worker under the Immediate strategy with each redaction and
\* under the Buffered and the Cached strategy, persist_cached run between two
\* exchanges: every path an admitted Request can take from from_http_request to
\* the table.
LifecycleInit ==
    /\ Init
    /\ ~settings.REQUEST_ONLY_ERRORS /\ ~settings.REQUEST_IGNORE_AJAX
    /\ \/ /\ ~settings.REQUEST_USE_CACHE
          /\ settings.REQUEST_BUFFER_SIZE = 0
          /\ \/ settings.REQUEST_LOG_IP /\ settings.REQUEST_LOG_USER
             \/ ~settings.REQUEST_LOG_IP /\ ~settings.REQUEST_ANONYMOUS_IP
                   /\ ~settings.REQUEST_LOG_USER
       \/ /\ settings.REQUEST_USE_CACHE <=> settings.REQUEST_BUFFER_SIZE = 0
          /\ settings.REQUEST_BUFFER_SIZE \in {0, 1}
          /\ settings.REQUEST_LOG_IP /\ ~settings.REQUEST_ANONYMOUS_IP
          /\ settings.REQUEST_LOG_USER

LifecycleNext ==
    \/ \E e \in {x \in Exchanges : Admitted(x, settings)}, time \in now..MaxTime :
          Quiescent /\ Room(e, MaxQueryRequests) /\ ProcessResponse("t1", e, time)
    \/ CacheSet("t1")
    \/ Save("t1")
    \/ BufferAppend("t1")
    \/ ThresholdCheck("t1")
    \/ BufferBulkCreate("t1")
    \/ BufferClear("t1")
    \/ Quiescent /\ cache /= <<>> /\ PersistCached("f1", <<>>)
    \/ GetMany("f1")
    \/ FlushBulkCreate("f1")
    \/ DeletePattern("f1")

LifecycleSpec == LifecycleInit /\ [][LifecycleNext]_vars

\* ------------------------------------------------------------------ claims
Range(q) == {q[i] : i \in 1..Len(q)}

\* The identities of the Request objects that have left the thread that built them.
Submitted == {rid \in 1..nreq : \A t \in Threads : r[t].rid /= rid \/ pc[t] /= "created"}

BufferedStrategy == ~settings.REQUEST_USE_CACHE /\ settings.REQUEST_BUFFER_SIZE >= 1

\* The exchanges the filter is to reject, as the claim lists them.
Rejected(e, cfg) ==
    \/ Lower(e.method) \notin REQUEST_VALID_METHOD_NAMES
    \/ cfg.REQUEST_ONLY_ERRORS /\ e.status < 400
    \/ e.path \in REQUEST_IGNORE_PATHS
    \/ cfg.REQUEST_IGNORE_AJAX /\ e.ajax
    \/ e.ip \in REQUEST_IGNORE_IP
    \/ e.username \in REQUEST_IGNORE_USERNAME

\* C1: for every exchange the admission filter rejects, process_response returns
\* the response in that one step and calls no submit: the buffer, the cache and
\* the table are unchanged and no bulk insert is attempted.
C1_RejectedExchangeChangesNothing ==
    [][\A t \in Threads, e \in Exchanges :
         (Rejected(e, settings) /\ \E time \in now..MaxTime : ProcessResponse(t, e, time))
            => /\ UNCHANGED <<REQUEST_BUFFER, cache, store, bulkLog>>
               /\ pc'[t] = "idle"
               /\ ret'[t] = "filtered"]_vars

\* A rejected exchange was processed while records were pending in the buffer.
C1_Witness == ret["t1"] = "filtered" /\ REQUEST_BUFFER /= <<>>

\* C2: Buffered strategy, threshold T >= 1, submits one after the other from an
\* empty buffer: the first T submits attempt no bulk insert; the (T+1)-th attempts
\* exactly one, of the T+1 records in submission order; after it the buffer is
\* empty, whatever the outcome of the insert.
C2_FlushAtThresholdPlusOne ==
    BufferedStrategy =>
        LET T == settings.REQUEST_BUFFER_SIZE
        IN /\ nreq <= T => bulkLog = <<>>
           /\ nreq = T + 1 => Len(bulkLog) <= 1
           /\ (nreq = T + 1 /\ Quiescent) =>
                 /\ Len(bulkLog) = 1
                 /\ bulkLog[1].args = [i \in 1..(T + 1) |-> i]
                 /\ REQUEST_BUFFER = <<>>

\* The (T+1)-th submit has returned after a bulk insert that failed.
C2_Witness ==
    /\ BufferedStrategy
    /\ Quiescent
    /\ nreq = settings.REQUEST_BUFFER_SIZE + 1
    /\ Len(bulkLog) = 1
    /\ ~bulkLog[1].ok

\* A failed bulk insert of the buffer whose submit has returned.
Dropped(i) ==
    /\ bulkLog[i].src = "buffer"
    /\ ~bulkLog[i].ok
    /\ bulkLog[i].retAt >= 0

C3_State ==
    /\ \A t \in Threads : ret[t] /= "raised"
    /\ \A i \in 1..Len(bulkLog) :
         Dropped(i) =>
            /\ bulkLog[i].inserted = 0
            /\ \A k \in 1..Len(REQUEST_BUFFER) :
                 REQUEST_BUFFER[k].rid \notin Range(bulkLog[i].args)
            /\ \A j \in 1..Len(bulkLog) :
                 bulkLog[j].by > bulkLog[i].retAt =>
                    Range(bulkLog[j].args) \cap Range(bulkLog[i].args) = {}

C3_Step ==
    \A t \in Threads :
        /\ (pc[t] = "bulk" /\ pc'[t] = "clear" /\ ~bulkLog'[Len(bulkLog')].ok)
              => store' = store
        /\ (pc[t] = "clear" /\ pc'[t] = "idle")
              => REQUEST_BUFFER' = <<>> /\ ret'[t] = "response"

\* C3: Buffered strategy: a failed threshold bulk insert leaves the table as it
\* was, the submit empties the buffer and returns normally, and no submit that
\* starts after it has returned ever buffers or inserts one of the dropped records.
C3_FailedBatchDroppedNoRetry == []C3_State /\ [][C3_Step]_vars

\* A batch was dropped and a submit that started later has done a bulk insert.
C3_Witness ==
    \E i, j \in 1..Len(bulkLog) :
        /\ Dropped(i)
        /\ bulkLog[j].by > bulkLog[i].retAt
        /\ bulkLog[j].ok
        /\ bulkLog[j].retAt >= 0

\* C4: Buffered strategy, every interleaving: every record appended to the buffer
\* is still in the buffer or was in the argument of some bulk insert attempt.
C4_NoAppendedRecordLost ==
    \A rid \in Submitted :
        \/ \E k \in 1..Len(REQUEST_BUFFER) : REQUEST_BUFFER[k].rid = rid
        \/ \E i \in 1..Len(bulkLog) : rid \in Range(bulkLog[i].args)

\* C5: Buffered strategy, every interleaving: each record is passed to at most one
\* bulk insert attempt, and no record is in the table twice.
C5_AtMostOneBulkInsertPerRecord ==
    \A rid \in 1..nreq :
        /\ Cardinality({i \in 1..Len(bulkLog) : rid \in Range(bulkLog[i].args)}) <= 1
        /\ Cardinality({k \in 1..Len(store) : store[k].rid = rid}) <= 1

\* C6: Cached strategy, persist_cached running beside submits, no bulk insert
\* failing: no entry is lost, every record written to the cache is still there or
\* was passed to a bulk insert.
C6_FlushLosesNoEntry ==
    (\A i \in 1..Len(bulkLog) : bulkLog[i].ok) =>
        \A rid \in Submitted :
            \/ \E k \in DOMAIN cache : cache[k].rid = rid
            \/ \E i \in 1..Len(bulkLog) : rid \in Range(bulkLog[i].args)

\* The flusher's last bulk_create failed.
LastBulkFailed(f) ==
    \E i \in 1..Len(bulkLog) :
        /\ bulkLog[i].src = "cache" /\ bulkLog[i].by = f /\ ~bulkLog[i].ok
        /\ \A j \in (i + 1)..Len(bulkLog) : ~(bulkLog[j].src = "cache" /\ bulkLog[j].by = f)

\* C7: persist_cached deletes every matched key whether or not its bulk insert
\* succeeded: after a failed bulk insert it returns without raising and the
\* matched entries are gone from the cache.
C7_FlushDeletesOnFailure ==
    \A f \in Flushers :
        (fpc[f] = "idle" /\ LastBulkFailed(f)) =>
            /\ fret[f] = "returned"
            /\ fl[f].requests_keys \cap DOMAIN cache = {}

\* C8: a persist_cached that follows another with the same pattern, no submit
\* between them, retrieves no record and inserts nothing.
C8_SecondFlushIsEmpty ==
    \A f \in Flushers :
        (/\ fl[f].again
         /\ fl[f].cache_pattern \in quiet
         /\ fpc[f] \in {"bulk_create", "delete_pattern", "idle"})
            => fl[f].requests = {} /\ fl[f].created = <<>>

\* The IP and user a row must have under the deployment's settings.
Redacted(row, cfg) ==
    /\ ~cfg.REQUEST_LOG_IP => row.ip = REQUEST_IP_DUMMY
    /\ (cfg.REQUEST_LOG_IP /\ cfg.REQUEST_ANONYMOUS_IP) => row.ip = <<203, 0, 113, 1>>
    /\ ~cfg.REQUEST_LOG_USER => row.user = None

\* C9: every row of the table, whichever way it was inserted, carries the redacted
\* IP (the dummy, or the last octet rewritten) and a null user when user logging
\* is off.
C9_EveryStoredRecordIsRedacted ==
    \A k \in 1..Len(store) : Redacted(store[k], settings)

ImmediateStrategy == ~settings.REQUEST_USE_CACHE /\ settings.REQUEST_BUFFER_SIZE = 0

\* C11 as stated: under every strategy no storage failure reaches the caller of
\* process_response.
C11_SubmitNeverRaises == \A t \in Threads : ret[t] /= "raised"

\* C11, amended: a storage failure reaches the caller of process_response only
\* under the Immediate strategy (the failing r.save()); under Buffered the failed
\* bulk insert is swallowed and the response returned, and under Cached submit
\* writes nothing to the table.
C11_OnlyImmediateRaises ==
    \A t \in Threads : ret[t] = "raised" => ImmediateStrategy

\* A Buffered submit has returned the response after its bulk insert failed.
C11_Witness ==
    /\ BufferedStrategy
    /\ Quiescent
    /\ ret["t1"] = "response"
    /\ \E i \in 1..Len(bulkLog) : ~bulkLog[i].ok /\ bulkLog[i].by = nreq

\* The position of process_response in its straight-line code.
PcRank(p) ==
    CASE p = "created" -> 1
      [] p = "check" -> 2
      [] p = "bulk" -> 3
      [] p = "clear" -> 4
      [] OTHER -> 5

C18_Step ==
    /\ \A t \in Threads :
         pc'[t] /= pc[t] => (pc[t] = "idle" \/ PcRank(pc'[t]) > PcRank(pc[t]))
    /\ ~(store' /= store /\ cache' /= cache)
    /\ (store' /= store \/ cache' /= cache \/ Len(bulkLog') /= Len(bulkLog)) =>
          \/ pc["t1"] = "created" /\ pc'["t1"] = "idle" /\ bulkLog' = bulkLog
          \/ pc["t1"] = "bulk" /\ pc'["t1"] = "clear" /\ Len(bulkLog') = Len(bulkLog) + 1

C18_State ==
    /\ \A i, j \in 1..Len(bulkLog) : bulkLog[i].by = bulkLog[j].by => i = j
    /\ \A i, j \in 1..Len(bulkLog) :
         (i < j /\ ~bulkLog[i].ok) => Range(bulkLog[i].args) \cap Range(bulkLog[j].args) = {}
    /\ Len(bulkLog) <= nreq

\* C18: one submit at a time, every strategy: process_response only moves forward
\* through its code (no loop, no retry), a submit performs at most one operation
\* on the table or the cache (the single insert or the cache write, which end the
\* call, or one bulk insert attempt), and the records of a failed bulk insert are
\* in no later attempt.
C18_OneStorageOperationPerSubmit == []C18_State /\ [][C18_Step]_vars

\* A bulk insert has failed and a later submit has returned without another attempt.
C18_Witness ==
    /\ Quiescent
    /\ Len(bulkLog) = 1
    /\ ~bulkLog[1].ok
    /\ nreq > bulkLog[1].by
    /\ REQUEST_BUFFER /= <<>>

C20_State ==
    (BufferedStrategy /\ Quiescent) =>
        /\ Len(REQUEST_BUFFER) <= settings.REQUEST_BUFFER_SIZE
        /\ \A i \in 1..Len(store) :
              \E j \in 1..Len(bulkLog) : store[i].rid \in Range(bulkLog[j].args)

C20_Step ==
    BufferedStrategy =>
        /\ store' /= store =>
              /\ pc["t1"] = "bulk"
              /\ Len(REQUEST_BUFFER) > settings.REQUEST_BUFFER_SIZE
              /\ store' = store \o REQUEST_BUFFER
        /\ Quiescent => (REQUEST_BUFFER' = REQUEST_BUFFER /\ store' = store)
        /\ Len(REQUEST_BUFFER') < Len(REQUEST_BUFFER) =>
              (pc["t1"] = "clear" /\ Len(REQUEST_BUFFER) > settings.REQUEST_BUFFER_SIZE)

\* C20: Buffered strategy with threshold T, submits one at a time: between two
\* submits the buffer holds at most T records; a record reaches the table only in
\* the bulk insert a submit makes when the buffer has grown past T; and nothing
\* but a submit moves the buffer or the table: while no exchange arrives, the
\* pending records stay where they are.
C20_BufferBoundedOnlySubmitFlushes == []C20_State /\ [][C20_Step]_vars

\* After the last submit returned, T records are pending and none is in the table.
C20_Witness ==
    /\ BufferedStrategy
    /\ Quiescent
    /\ Len(REQUEST_BUFFER) = settings.REQUEST_BUFFER_SIZE
    /\ settings.REQUEST_BUFFER_SIZE = 2
    /\ store = <<>>

\* C14: Immediate strategy, every insert succeeding, submits one after the other:
\* after N submits the table holds exactly N rows, the row of each submit is
\* inserted before its process_response returns, the rows are in submission
\* order, and their timestamps do not decrease in insertion order.
C14_ImmediateOneRowPerSubmitInOrder ==
    /\ Quiescent => Len(store) = nreq
    /\ pc["t1"] = "created" => Len(store) = nreq - 1
    /\ ret["t1"] = "response" => (Len(store) = nreq /\ store[nreq].rid = nreq)
    /\ \A i \in 1..Len(store) : store[i].rid = i
    /\ \A i, j \in 1..Len(store) : i < j => store[i].time <= store[j].time

\* Three submits have returned and the clock moved between the first and the last.
C14_Witness ==
    /\ Quiescent
    /\ nreq = 3
    /\ Len(store) = 3
    /\ store[1].time < store[3].time

\* The six rules of the filter as the specification lists them, TRUE for a rule
\* the exchange passes.
AdmissionRules(e, cfg) ==
    << Lower(e.method) \in REQUEST_VALID_METHOD_NAMES,
       ~(cfg.REQUEST_ONLY_ERRORS /\ e.status < 400),
       e.path \notin REQUEST_IGNORE_PATHS,
       ~(cfg.REQUEST_IGNORE_AJAX /\ e.ajax),
       e.ip \notin REQUEST_IGNORE_IP,
       e.username \notin REQUEST_IGNORE_USERNAME >>

ReturnLines == <<14, 17, 20, 23, 26, 30>>

C17_State ==
    \A e \in AllExchanges :
        LET rules == AdmissionRules(e, settings)
            failed == {i \in 1..6 : ~rules[i]}
        IN /\ Admitted(e, settings) <=> (\A i \in 1..6 : rules[i])
           /\ failed /= {} =>
                 FilterLine(e, settings) =
                    ReturnLines[CHOOSE i \in failed : \A j \in failed : i <= j]

C17_Step ==
    pc["t1"] = "idle" =>
        /\ UNCHANGED <<report, settings, now, REQUEST_BUFFER, cache, store, fpc, fl, fret,
                       nflush, bulkLog, quiet>>
        /\ ret'["t1"] = "filtered" => UNCHANGED <<nreq, r, pc>>
        /\ pc'["t1"] = "created" =>
              \E e \in AllExchanges :
                 /\ \A i \in 1..6 : AdmissionRules(e, settings)[i]
                 /\ r'["t1"] = from_http_request(e, now, nreq + 1)

\* C17: the filter admits an exchange exactly when it passes the six rules, the
\* first rule that fails (in the stated order) is the one that ends
\* process_response, and evaluating the filter changes neither the buffer, the
\* cache, the table nor the settings.
C17_FilterIsConjunctionOfSixRules == []C17_State /\ [][C17_Step]_vars

\* An exchange was rejected with both optional rules switched on and a row stored.
C17_Witness ==
    /\ ret["t1"] = "filtered"
    /\ store /= <<>>
    /\ settings.REQUEST_ONLY_ERRORS
    /\ settings.REQUEST_IGNORE_AJAX

C19_Step ==
    /\ settings.REQUEST_USE_CACHE =>
          /\ UNCHANGED <<REQUEST_BUFFER, store>>
          /\ cache' /= cache =>
                /\ pc["t1"] = "created" /\ pc'["t1"] = "idle"
                /\ DOMAIN cache' = DOMAIN cache \cup {request_cache_key(r["t1"])}
                /\ Cardinality(DOMAIN cache') = Cardinality(DOMAIN cache) + 1
    /\ ImmediateStrategy => UNCHANGED <<REQUEST_BUFFER, cache>>
    /\ BufferedStrategy =>
          /\ UNCHANGED cache
          /\ store' /= store => (pc["t1"] = "bulk" /\ Len(bulkLog') = Len(bulkLog) + 1)
    /\ ret'["t1"] = "uncommitted" => UNCHANGED <<REQUEST_BUFFER, cache, store>>

C19_State ==
    /\ settings.REQUEST_USE_CACHE =>
          /\ REQUEST_BUFFER = <<>> /\ store = <<>> /\ bulkLog = <<>>
          /\ Quiescent => Cardinality(DOMAIN cache) = nreq
    /\ ImmediateStrategy =>
          /\ REQUEST_BUFFER = <<>> /\ cache = <<>> /\ bulkLog = <<>>
    /\ BufferedStrategy =>
          /\ cache = <<>>
          /\ Quiescent => Len(REQUEST_BUFFER) + Len(store) <= nreq

\* C19: a submit follows one strategy, chosen by the cache flag first and the
\* buffer size second: with the cache on it writes one cache entry and leaves the
\* buffer and the table alone whatever the buffer size; with the cache off and
\* size 0 it touches only the table; otherwise only the buffer, and the table
\* only in the threshold bulk insert; a call with commit=False changes none.
C19_OneStrategyByPrecedence == []C19_State /\ [][C19_Step]_vars

\* Cache on with a non-zero buffer size: two submits wrote two cache entries and a
\* call with commit=False has returned.
C19_Witness ==
    /\ settings.REQUEST_USE_CACHE
    /\ settings.REQUEST_BUFFER_SIZE = 1
    /\ Cardinality(DOMAIN cache) = 2
    /\ ret["t1"] = "uncommitted"

\* C15: active_users called with a window returns exactly the users, None
\* excluded, that have at least one row in the table whose time is not before the
\* clock reading of the call minus the window; called without a window, the users
\* of all the rows.
C15_ActiveUsersInWindow ==
    report.op = "active_users" =>
        report.users =
            {u \in DOMAIN UserId :
                \E i \in 1..Len(store) :
                    /\ store[i].user = u
                    /\ report.args /= <<>> => store[i].time >= report.at - report.args[1]}

\* Called at clock 1 with window 0: a user's only row is older than the window
\* and the row inside the window has no user, so the answer is empty.
C15_Witness ==
    /\ report.op = "active_users"
    /\ report.args = <<0>>
    /\ report.at = 1
    /\ \E i \in 1..Len(store) : store[i].user = "alice" /\ store[i].time = 0
    /\ \E i \in 1..Len(store) : store[i].user = None /\ store[i].time = 1
    /\ report.users = {}

\* The rows of the given users in session k.
SessionRows(k, user_ids) ==
    {i \in 1..Len(store) :
        /\ store[i].session_key = k
        /\ store[i].user /= None
        /\ \E j \in 1..Len(user_ids) : UserId[store[i].user] = user_ids[j]}

\* C12: last_requests_with_open_sessions_from_users, after flushing the cache,
\* returns for every unexpired session with a row of the given users exactly one
\* row, the one with the latest time among that session's rows of those users.
C12_LatestRecordPerOpenSession ==
    (report.op = "last_requests" /\ report.pc = "idle") =>
        LET open == {k \in DOMAIN SessionExpiry :
                        SessionExpiry[k] >= report.at /\ SessionRows(k, report.args) /= {}}
        IN /\ Cardinality(report.ids) = Cardinality(open)
           /\ \A k \in open :
                 \E i \in report.ids \cap SessionRows(k, report.args) :
                    \A j \in SessionRows(k, report.args) : store[j].time <= store[i].time

\* C13: over every interleaving of submit, persist_cached (two calls at once
\* included) and the query of the open sessions, no Request is inserted into the
\* table more than once.
C13_NoRecordInsertedTwice ==
    \A rid \in 1..nreq :
        Cardinality({i \in 1..Len(store) : store[i].rid = rid}) <= 1

\* Every copy of a Request there is: in a thread, the buffer, the cache, the
\* locals of persist_cached and the table.
AllRecords ==
    {r[t] : t \in {u \in Threads : r[u] /= NoRequest}}
        \cup Range(REQUEST_BUFFER)
        \cup {cache[k] : k \in DOMAIN cache}
        \cup UNION {fl[f].requests : f \in Callers}
        \cup UNION {Range(fl[f].created) : f \in Callers}
        \cup Range(store)

\* The fields of a Request other than the IP address and the user.
Core(rec) ==
    [rid |-> rec.rid, time |-> rec.time, method |-> rec.method, path |-> rec.path,
     is_ajax |-> rec.is_ajax, session_key |-> rec.session_key, response |-> rec.response]

C16_State ==
    \A x, y \in AllRecords : x.rid = y.rid => Core(x) = Core(y)

C16_Step ==
    \A x \in AllRecords' :
        \/ \E y \in AllRecords : Core(y) = Core(x)
        \/ /\ pc["t1"] = "idle"
           /\ x = r'["t1"]
           /\ x.rid = nreq + 1
           /\ x.time = now'

\* C16: the time of a Request is set once, by from_http_request, to the clock
\* reading of that moment; the append to the buffer, the cache write and read,
\* the bulk inserts from the buffer and from the cache and the redaction of save
\* leave it, and every field but the IP address and the user, as they were.
C16_TimestampAssignedOnce == []C16_State /\ [][C16_Step]_vars

\* A row was saved with its IP address and user redacted after the clock moved on
\* from the row's time.
C16_Witness ==
    /\ ~settings.REQUEST_LOG_USER
    /\ \E i \in 1..Len(store) :
          /\ store[i].ip = REQUEST_IP_DUMMY
          /\ store[i].session_key = "s1"
          /\ store[i].user = None
          /\ store[i].time < now

====
